---- MODULE Spec2Model ----
(***************************************************************************)
(* Graceful shutdown coordinator of concierge-backend.                     *)
(*                                                                         *)
(*   registerGracefulShutdown  src/src/infra/utils/graceful-shutdown.ts    *)
(*   onSigint/onSigterm/onUncaught/onUnhandled                             *)
(*                             src/src/infra/utils/handlers.ts             *)
(*   shutdown (coordinator)    src/unnamed/part_001                        *)
(*   performShutdown (executor) src/unnamed/part_002                       *)
(*   formatUnknown             src/unnamed/part_003                        *)
(*                                                                         *)
(* Node runs all of this on one event loop.  A synchronous run (an event   *)
(* delivery, the executor up to its next await) is a chain of steps of the *)
(* frame on top of `stack`; the event loop (timers, settled promises, new  *)
(* process events) only acts when the stack is empty.  While an executor   *)
(* runs synchronously inside a cleanup task or app.close(), that user code *)
(* may emit a process event itself (a re-entrant trigger).                 *)
(*                                                                         *)
(* Time is abstracted: an armed timer may fire at any event-loop turn.     *)
(* The hosted application keeps the event loop alive while a shutdown is   *)
(* pending, so the unref'ed timer still fires.                             *)
(***************************************************************************)
EXTENDS Integers, Sequences, FiniteSets, TLC

\* ------------------------------------------------------------------ bounds
MaxRegs == 2
MaxTasks == 2
MaxTriggers == 2
MaxUnregister == 1

\* ------------------------------------------------------------ data model

\* The four process events registerGracefulShutdown subscribes to.
Events == {"SIGINT", "SIGTERM", "uncaughtException", "unhandledRejection"}

\* ShutdownReason (types.ts).
Reasons == {"signal:SIGINT", "signal:SIGTERM", "uncaughtException",
            "unhandledRejection", "manual"}

\* Exit codes a manual caller may pass as the baseline.
ManualExitCodes == {0, 1, 2}

\* Values of type unknown that a task, app.close() or a process event can
\* carry, described by what formatUnknown observes of them:
\*   isError  value instanceof Error
\*   json     JSON.stringify(value): a string, undefined, or it throws
\*   str      String(value): a string, or it throws
ErrorValue == [isError |-> TRUE, json |-> "string", str |-> "string"]
PlainObject == [isError |-> FALSE, json |-> "string", str |-> "string"]
CircularObject == [isError |-> FALSE, json |-> "throws", str |-> "string"]
UndefinedValue == [isError |-> FALSE, json |-> "undefined", str |-> "string"]
\* e.g. a circular object without prototype, or one whose toJSON and
\* toString both throw: JSON.stringify and String both throw on it.
HostileObject == [isError |-> FALSE, json |-> "throws", str |-> "throws"]

Values == {ErrorValue, PlainObject, CircularObject, UndefinedValue, HostileObject}

\* formatUnknown(value): "string" when it returns a string, "undefined" when
\* it returns undefined, "throws" when the call throws.
FormatUnknown(value) ==
  IF value.isError THEN "string"
  ELSE IF value.json # "throws" THEN value.json
  ELSE value.str

\* The TypeError that String(value) throws is an Error instance.
ThrownByFormat == ErrorValue

\* (event) -> (reason, exitCode) of the four handlers (handlers.ts).
HandlerReason(ev) ==
  CASE ev = "SIGINT" -> "signal:SIGINT"
    [] ev = "SIGTERM" -> "signal:SIGTERM"
    [] ev = "uncaughtException" -> "uncaughtException"
    [] ev = "unhandledRejection" -> "unhandledRejection"

HandlerExitCode(ev) ==
  IF ev \in {"SIGINT", "SIGTERM"} THEN 0 ELSE 1

\* ------------------------------------------------------------------ state
VARIABLES
  cleanupTasks,     \* per registration: length of its cleanupTasks list
  isShuttingDown,   \* per registration: shutdownState.isShuttingDown
  listeners,        \* per event: the process listeners, in subscription order
  shutdownPromise,  \* module-level handle: 0 (undefined) or an executor id
  execs,            \* the performShutdown activations, in start order
  stack,            \* frames of the current synchronous run
  exit,             \* how the process ended, if it has
  triggers,         \* number of triggers delivered so far
  unregisters,      \* number of calls of an unregister function so far
  unregistered,     \* history: registrations whose unregister function was called
  results,          \* history: what each coordinator call returned
  log,              \* per registration, per message: lines written to its logger
  callCount,        \* history: per registration, per reason: coordinator calls
  formatted         \* history: the outcome of the latest formatUnknown call

vars == <<cleanupTasks, isShuttingDown, listeners, shutdownPromise, execs,
          stack, exit, triggers, unregisters, unregistered, results, log,
          callCount, formatted>>

\* The variables of registration, and those of the coordinator and executor.
regVars == <<cleanupTasks, listeners, unregisters, unregistered>>

LogKinds == {"uncaught", "unhandled", "inProgress", "completedOrInProgress",
             "starting", "taskError", "closed", "shutdownError", "exiting",
             "timeout"}

NoExit == [by |-> "none", code |-> 0, exec |-> 0]

Running == exit.by = "none"

NumRegs == Len(cleanupTasks)

Init ==
  /\ cleanupTasks = <<>>
  /\ isShuttingDown = <<>>
  /\ listeners = [ev \in Events |-> <<>>]
  /\ shutdownPromise = 0
  /\ execs = <<>>
  /\ stack = <<>>
  /\ exit = NoExit
  /\ triggers = 0
  /\ unregisters = 0
  /\ unregistered = {}
  /\ results = {}
  /\ log = <<>>
  /\ callCount = <<>>
  /\ formatted = "none"

\* --------------------------------------------------------- registration

\* onSigint(options), onSigterm(options), onUncaught(options),
\* onUnhandled(options): every call returns a NEW function object that
\* captures the options of registration r.  A function object is identified
\* by the call that created it: gen 0 for the calls in the body of
\* registerGracefulShutdown, gen k for those of the k-th run of an
\* unregister function.
Handler(r, gen) == [reg |-> r, gen |-> gen]

\* process.on(ev, h): append the listener.
ProcessOn(ls, h) == Append(ls, h)

\* process.off(ev, h): remove the most recently added listener that is the
\* same function object as h; nothing when there is none.
ProcessOff(ls, h) ==
  LET hits == {i \in 1..Len(ls) : ls[i] = h}
  IN IF hits = {} THEN ls
     ELSE LET k == CHOOSE i \in hits : \A j \in hits : j <= i
          IN [i \in 1..(Len(ls) - 1) |-> IF i < k THEN ls[i] ELSE ls[i + 1]]

\* const shutdownState = { isShuttingDown: false }: a new state object for
\* the new registration; the existing ones are untouched.
NewShutdownState(flags) == Append(flags, FALSE)

\* registerGracefulShutdown(app, {cleanupTasks: n tasks}), called while the
\* application boots, before the process handles its first trigger.
Register(n) ==
  /\ Running
  /\ stack = <<>>
  /\ triggers = 0
  /\ NumRegs < MaxRegs
  /\ cleanupTasks' = Append(cleanupTasks, n)
  /\ isShuttingDown' = NewShutdownState(isShuttingDown)
  /\ log' = Append(log, [k \in LogKinds |-> 0])
  /\ callCount' = Append(callCount, [rs \in Reasons |-> 0])
  /\ listeners' = [ev \in Events |->
       ProcessOn(listeners[ev], Handler(NumRegs + 1, 0))]
  /\ UNCHANGED <<shutdownPromise, execs, stack, exit, triggers, unregisters,
                 unregistered, results, formatted>>

\* The function returned by registerGracefulShutdown for registration r:
\* four process.off calls, each given the result of a fresh onX(options) call.
Unregister(r) ==
  /\ Running
  /\ stack = <<>>
  /\ r \in 1..NumRegs
  /\ unregisters < MaxUnregister
  /\ unregisters' = unregisters + 1
  /\ unregistered' = unregistered \cup {r}
  /\ listeners' = [ev \in Events |->
       ProcessOff(listeners[ev], Handler(r, unregisters + 1))]
  /\ UNCHANGED <<cleanupTasks, isShuttingDown, shutdownPromise, execs, stack,
                 exit, triggers, results, log, callCount, formatted>>

\* ----------------------------------------------------------- coordinator

\* Mutant of CoordinatorBranch: the secondary check on isShuttingDown is
\* missing.
BranchWithoutSecondaryCheck(promise, flag) ==
  IF promise # 0 THEN "await" ELSE "start"

\* Which branch of the coordinator (shutdown, lines 17-27) a call takes,
\* given the module-level handle and the registration's flag.
CoordinatorBranch(promise, flag) ==
  IF promise # 0 THEN "await"
  ELSE IF flag THEN "return"
  ELSE "start"

\* Mutant of InitialFinalExitCode: let finalExitCode = 1.
StartEscalated(exitCode) == 1

\* let finalExitCode = exitCode (performShutdown, line 9).
InitialFinalExitCode(exitCode) == exitCode

\* Mutant of ArmTimer: the timer is never armed.
TimerNotArmed == FALSE

\* setTimeout(..., timeoutMs) (performShutdown, line 11): the timer is armed.
ArmTimer == TRUE

NoValue == [isError |-> FALSE, json |-> "none", str |-> "none"]

\* A performShutdown activation right after its synchronous start: timer
\* armed, "Starting graceful shutdown" logged, about to invoke the first
\* cleanup task.
\*   pc       "task" about to invoke task idx (app.close() when idx is past
\*            the list), "awaitTask"/"awaitClose" suspended at the await,
\*            "exited" after process.exit
\*   calls    the indices of the tasks invoked so far, in order; closes the
\*            number of app.close() calls
\*   pending  the tasks invoked and not yet settled; closePending likewise
\*   escaped  an exception left the outer catch block and is propagating
\*   promise  the promise the async function returned: "pending",
\*            "fulfilled" or "rejected"
\*   taskReasons  the reasons passed to the cleanup tasks so far
\*   lineReasons  the reasons written in the start, timeout and exit lines
\*   catchThrew   the per-task catch block itself threw
NewExec(r, reason, exitCode) ==
  [reg |-> r, reason |-> reason, exitCode |-> exitCode,
   finalExitCode |-> InitialFinalExitCode(exitCode),
   timer |-> ArmTimer, pc |-> "task", idx |-> 1,
   calls |-> <<>>, closes |-> 0, pending |-> {}, closePending |-> FALSE,
   taskFailed |-> FALSE, closeFailed |-> FALSE,
   escaped |-> FALSE, promise |-> "pending",
   taskReasons |-> {}, lineReasons |-> {reason}, catchThrew |-> FALSE]

\* Mutant of SetShuttingDown: the assignment replaces the shared state, so
\* the flags of the other registrations read false again.
SetOnlyThisShuttingDown(flags, r) == [i \in 1..Len(flags) |-> i = r]

\* shutdownState.isShuttingDown = true (shutdown, line 27).
SetShuttingDown(flags, r) == [flags EXCEPT ![r] = TRUE]

AddLog(lg, r, kind) == [lg EXCEPT ![r][kind] = @ + 1]

\* Mutant of Result: a call that has no handle to return hands out the
\* sequence started last.
ResultInFlight(handle, W, reentrant) ==
  [handle |-> IF handle = 0 THEN Len(W.execs) ELSE handle,
   started |-> Len(W.execs), reentrant |-> reentrant]

\* What a coordinator call returned: the handle (0: none), the number of
\* executors started before the call, and whether the call was re-entrant.
Result(handle, W, reentrant) ==
  [handle |-> handle, started |-> Len(W.execs), reentrant |-> reentrant]

\* The call a handler of handlers.ts makes for its event carrying value v;
\* fmt is what formatUnknown(v) gives in the two error handlers ("none" for
\* the signal handlers, which format nothing).
HandlerCall(ev, v) ==
  [ev |-> ev, reason |-> HandlerReason(ev), exitCode |-> HandlerExitCode(ev),
   fmt |-> IF ev \in {"uncaughtException", "unhandledRejection"}
           THEN FormatUnknown(v) ELSE "none"]

\* A direct call shutdown(options)('manual', exitCode).
ManualCall(exitCode) ==
  [ev |-> "manual", reason |-> "manual", exitCode |-> exitCode, fmt |-> "none"]

\* Mutant of LogTrigger: the error handlers call the coordinator without
\* logging.
SkipTriggerLog(lg, r, ev) == lg

\* options.logger.fatal(`uncaughtException: ...`) and
\* options.logger.fatal(`unhandledRejection: ...`) (handlers.ts, lines 7
\* and 14); the signal handlers log nothing.
LogTrigger(lg, r, ev) ==
  IF ev = "uncaughtException" THEN AddLog(lg, r, "uncaught")
  ELSE IF ev = "unhandledRejection" THEN AddLog(lg, r, "unhandled")
  ELSE lg

\* One more coordinator call of registration r with the given reason.
CountCall(cs, r, reason) == [cs EXCEPT ![r][reason] = @ + 1]

\* Mutant of IgnoreLateCall: a call that finds a shutdown in progress raises
\* the final exit code of the running sequences to its own exit code.
EscalateOnLateCall(xs, call) ==
  [e \in 1..Len(xs) |->
     [xs[e] EXCEPT !.finalExitCode = IF call.exitCode = 1 THEN 1 ELSE @]]

\* The two early returns of the coordinator (shutdown, lines 17-25) use
\* neither reason nor exitCode: the running sequences stay as they are.
IgnoreLateCall(xs, call) == xs

\* One synchronous event delivery: the listeners ls of an event run in order;
\* each is a handler of handlers.ts calling shutdown(options)(reason, code).
\* W carries the state the calls read and write.  The delivery runs until a
\* call starts the executor: that call's frame is pushed with the listeners
\* still to run, and the delivery resumes when the frame returns.
RECURSIVE Deliver(_, _, _, _)
Deliver(W, ls, call, reentrant) ==
  IF ls = <<>> THEN W
  ELSE
    LET r == Head(ls).reg
        lg == LogTrigger(W.log, r, call.ev)
        V == [W EXCEPT !.calls = CountCall(@, r, call.reason),
                       !.formatted = IF call.fmt = "none" THEN @ ELSE call.fmt]
        branch == CoordinatorBranch(W.sp, W.flags[r])
    IN CASE branch = "await" ->
              Deliver([V EXCEPT !.log = AddLog(lg, r, "inProgress"),
                                !.execs = IgnoreLateCall(@, call),
                                !.results = @ \cup {Result(W.sp, W, reentrant)}],
                      Tail(ls), call, reentrant)
         [] branch = "return" ->
              Deliver([V EXCEPT !.log = AddLog(lg, r, "completedOrInProgress"),
                                !.execs = IgnoreLateCall(@, call),
                                !.results = @ \cup {Result(0, W, reentrant)}],
                      Tail(ls), call, reentrant)
         [] branch = "start" ->
              [V EXCEPT !.flags = SetShuttingDown(W.flags, r),
                        !.execs = Append(@, NewExec(r, call.reason, call.exitCode)),
                        !.log = AddLog(lg, r, "starting"),
                        !.stack = <<[exec |-> Len(W.execs) + 1, store |-> TRUE,
                                     rest |-> Tail(ls), call |-> call,
                                     reentrant |-> reentrant]>> \o @]

World == [sp |-> shutdownPromise, flags |-> isShuttingDown, execs |-> execs,
          stack |-> stack, results |-> results, log |-> log, calls |-> callCount,
          formatted |-> formatted]

SetWorld(W) ==
  /\ shutdownPromise' = W.sp
  /\ isShuttingDown' = W.flags
  /\ execs' = W.execs
  /\ stack' = W.stack
  /\ results' = W.results
  /\ log' = W.log
  /\ callCount' = W.calls
  /\ formatted' = W.formatted

\* -------------------------------------------------------------- triggers

ErrorEvents == {"uncaughtException", "unhandledRejection"}

\* The values an event can carry: signals carry none.
EventValues(ev) == IF ev \in ErrorEvents THEN Values ELSE {NoValue}

\* The process emits ev with value v from the event loop.  The two error
\* handlers evaluate formatUnknown(v) before anything else: when that throws,
\* the handler throws.  Node turns an exception thrown by an
\* 'unhandledRejection' listener into an 'uncaughtException' event, and ends
\* the process with code 7 when an 'uncaughtException' listener throws.
Emit(ev, v) ==
  /\ Running
  /\ stack = <<>>
  /\ triggers < MaxTriggers
  /\ listeners[ev] # <<>>
  /\ triggers' = triggers + 1
  /\ IF ev \in ErrorEvents /\ FormatUnknown(v) = "throws"
     THEN IF ev = "uncaughtException"
          THEN /\ exit' = [by |-> "crash", code |-> 7, exec |-> 0]
               /\ formatted' = "throws"
               /\ UNCHANGED <<shutdownPromise, isShuttingDown, execs, stack,
                              results, log, callCount>>
          ELSE /\ SetWorld(Deliver([World EXCEPT !.formatted = "throws"],
                                   listeners["uncaughtException"],
                                   HandlerCall("uncaughtException", ThrownByFormat),
                                   FALSE))
               /\ UNCHANGED exit
     ELSE /\ SetWorld(Deliver(World, listeners[ev], HandlerCall(ev, v), FALSE))
          /\ UNCHANGED exit
  /\ UNCHANGED regVars

\* A direct call of registration r's coordinator from the event loop.
Manual(r, exitCode) ==
  /\ Running
  /\ stack = <<>>
  /\ triggers < MaxTriggers
  /\ r \in 1..NumRegs
  /\ triggers' = triggers + 1
  /\ SetWorld(Deliver(World, <<Handler(r, 0)>>, ManualCall(exitCode), FALSE))
  /\ UNCHANGED <<regVars, exit>>

\* The executor on top of the stack.
Top == Head(stack).exec

\* The events that user code emits synchronously in this model: one signal
\* (baseline exit code 0) and one error event (baseline exit code 1).
ReentrantEvents == {"SIGTERM", "uncaughtException"}

\* The cleanup task or app.close() that the executor on top of the stack has
\* just invoked emits ev synchronously (process.emit), before it returns its
\* promise.  An error event emitted this way carries an Error.
ReentrantEmit(ev) ==
  /\ Running
  /\ stack # <<>>
  /\ execs[Top].pc \in {"awaitTask", "awaitClose"}
  /\ triggers < MaxTriggers
  /\ listeners[ev] # <<>>
  /\ triggers' = triggers + 1
  /\ SetWorld(Deliver(World, listeners[ev], HandlerCall(ev, ErrorValue), TRUE))
  /\ UNCHANGED <<regVars, exit>>

\* --------------------------------------------------------------- executor

\* Mutant of AwaitTask: the task is started but not awaited (void task(reason)),
\* the loop goes on at once.
FireAndForgetTask(x) ==
  [x EXCEPT !.pending = @ \cup {x.idx}, !.idx = @ + 1, !.pc = "task"]

\* Mutant of AwaitTask: the executor blocks on the task (a synchronous
\* wait), so the task has finished when control comes back and the handler
\* is still on the stack.
BlockOnTask(x) == [x EXCEPT !.idx = @ + 1, !.pc = "task"]

\* await task(reason) on a task that returned: the executor suspends until
\* the task settles (performShutdown, line 26).
AwaitTask(x) == [x EXCEPT !.pending = @ \cup {x.idx}, !.pc = "awaitTask"]

\* Mutant of TaskErrorExitCode: the per-task catch leaves finalExitCode alone.
KeepExitCode(code) == code

\* finalExitCode = 1 in the per-task catch (performShutdown, line 29).
TaskErrorExitCode(code) == 1

\* Mutant of ShutdownErrorExitCode: the outer catch leaves finalExitCode alone.
KeepCodeInOuterCatch(code) == code

\* finalExitCode = 1 in the outer catch (performShutdown, line 37).
ShutdownErrorExitCode(code) == 1

\* Mutant of TimeoutExitCode: process.exit(finalExitCode) in the timeout
\* callback.
TimeoutWithFinalExitCode(x) == x.finalExitCode

\* process.exit(1) in the timeout callback (performShutdown, line 16).
TimeoutExitCode(x) == 1

\* Mutant of FinalExitCode: process.exit(exitCode), the baseline.
ExitWithBaseline(x) == x.exitCode

\* process.exit(finalExitCode) in the finally block (performShutdown, line 44).
FinalExitCode(x) == x.finalExitCode

\* The outer catch block (performShutdown, lines 35-37) entered with error v:
\* logger.fatal(...formatUnknown(error)); finalExitCode = 1.  When
\* formatUnknown throws, neither happens and its exception leaves the catch
\* block.  The finally block runs next.
\* Result: the executor, the lines it logged and what formatUnknown gave.
OuterCatch(x, v) ==
  IF FormatUnknown(v) = "throws"
  THEN [x |-> [x EXCEPT !.pc = "finally", !.escaped = TRUE], logs |-> <<>>,
        fmt |-> "throws"]
  ELSE [x |-> [x EXCEPT !.pc = "finally",
                        !.finalExitCode = ShutdownErrorExitCode(@)],
        logs |-> <<"shutdownError">>, fmt |-> FormatUnknown(v)]

\* Mutant of TaskCatch: after logging and escalating, the catch block leaves
\* the loop and the sequence (a rethrow or return in the catch), so the
\* later tasks and app.close() do not run.
TaskCatchStops(x, v) ==
  IF FormatUnknown(v) = "throws"
  THEN OuterCatch([x EXCEPT !.catchThrew = TRUE], ThrownByFormat)
  ELSE [x |-> [x EXCEPT !.pc = "finally",
                        !.finalExitCode = TaskErrorExitCode(@)],
        logs |-> <<"taskError">>, fmt |-> FormatUnknown(v)]

\* The per-task catch block (performShutdown, lines 27-30) entered with
\* error v: logger.error(...formatUnknown(error)); finalExitCode = 1; the
\* loop goes on with the next task.  When formatUnknown throws, its exception
\* leaves the loop and enters the outer catch.
TaskCatch(x, v) ==
  IF FormatUnknown(v) = "throws"
  THEN OuterCatch([x EXCEPT !.catchThrew = TRUE], ThrownByFormat)
  ELSE [x |-> [x EXCEPT !.pc = "task", !.idx = @ + 1,
                        !.finalExitCode = TaskErrorExitCode(@)],
        logs |-> <<"taskError">>, fmt |-> FormatUnknown(v)]

\* A synchronous step of the executor that enters no catch block.
Plain(x, logs) == [x |-> x, logs |-> logs, fmt |-> "none"]

RECURSIVE AddLogs(_, _, _)
AddLogs(lg, r, kinds) ==
  IF kinds = <<>> THEN lg
  ELSE AddLogs(AddLog(lg, r, Head(kinds)), r, Tail(kinds))

\* Mutant of TaskReason: the reason is derived from the current exit code
\* instead of being the reason of the sequence.
ReasonFromExitCode(x) ==
  IF x.finalExitCode = 0 THEN "signal:SIGTERM" ELSE "uncaughtException"

\* The reason written in the timeout line and in the "Process exiting" line
\* (performShutdown, lines 13 and 41): the parameter of the activation.
LineReason(x) == x.reason

\* Mutant of ExitInFinally: the finally block does not end the process.
NoExitInFinally == FALSE

\* process.exit(finalExitCode) is the last statement of the finally block
\* (performShutdown, line 44) and ends the process: the block never
\* completes, so the async function never settles its promise.
ExitInFinally == TRUE

\* Executor e takes the synchronous step with result R.  When the step ends
\* at the finally block, that block runs: clearTimeout(timer); logger.log(
\* "Process exiting with code ..."); process.exit(finalExitCode).  A finally
\* block that completed would settle the promise: rejected with the
\* exception that is propagating, fulfilled when there is none.
Step(e, R) ==
  /\ formatted' = IF R.fmt = "none" THEN formatted ELSE R.fmt
  /\ IF R.x.pc = "finally"
     THEN IF ExitInFinally
          THEN /\ execs' = [execs EXCEPT ![e] =
                              [R.x EXCEPT !.timer = FALSE, !.pc = "exited",
                                          !.lineReasons = @ \cup {LineReason(R.x)}]]
               /\ log' = AddLogs(log, R.x.reg, R.logs \o <<"exiting">>)
               /\ exit' = [by |-> "final", code |-> FinalExitCode(R.x),
                           exec |-> e]
          ELSE /\ execs' = [execs EXCEPT ![e] =
                              [R.x EXCEPT !.timer = FALSE, !.pc = "returned",
                                          !.lineReasons = @ \cup {LineReason(R.x)},
                                          !.promise = IF R.x.escaped
                                                      THEN "rejected"
                                                      ELSE "fulfilled"]]
               /\ log' = AddLogs(log, R.x.reg, R.logs \o <<"exiting">>)
               /\ UNCHANGED exit
     ELSE /\ execs' = [execs EXCEPT ![e] = R.x]
          /\ log' = AddLogs(log, R.x.reg, R.logs)
          /\ UNCHANGED exit

\* task(reason) (performShutdown, line 26): the reason a cleanup task is
\* given is the parameter of the activation.
TaskReason(x) == x.reason

\* for (const task of cleanupTasks) { try { await task(reason) } ... }: the
\* executor on top of the stack invokes its next cleanup task, which throws
\* v synchronously (thrown) or returns.
InvokeTask(thrown, v) ==
  /\ Running
  /\ stack # <<>>
  /\ LET x == execs[Top]
         y == [x EXCEPT !.calls = Append(@, x.idx),
                        !.taskReasons = @ \cup {TaskReason(x)}]
     IN /\ x.pc = "task"
        /\ x.idx <= cleanupTasks[x.reg]
        /\ Step(Top, IF thrown
                     THEN TaskCatch([y EXCEPT !.taskFailed = TRUE], v)
                     ELSE Plain(AwaitTask(y), <<>>))
  /\ UNCHANGED <<regVars, isShuttingDown, shutdownPromise, stack, triggers,
                 results, callCount>>

\* Mutant of CallClose: the timer is disarmed once the tasks are done, so it
\* does not cover app.close().
ClearTimerThenClose(x) == [x EXCEPT !.closes = @ + 1, !.timer = FALSE]

\* app.close() is called (performShutdown, line 33); the timer armed at the
\* start stays as it is.
CallClose(x) == [x EXCEPT !.closes = @ + 1]

\* await app.close(), after the loop: app.close() throws v synchronously
\* (thrown) or returns its promise.
InvokeClose(thrown, v) ==
  /\ Running
  /\ stack # <<>>
  /\ LET x == execs[Top]
         y == CallClose(x)
     IN /\ x.pc = "task"
        /\ x.idx > cleanupTasks[x.reg]
        /\ Step(Top, IF thrown
                     THEN OuterCatch([y EXCEPT !.closeFailed = TRUE], v)
                     ELSE Plain([y EXCEPT !.pc = "awaitClose",
                                          !.closePending = TRUE], <<>>))
  /\ UNCHANGED <<regVars, isShuttingDown, shutdownPromise, stack, triggers,
                 results, callCount>>

\* The executor on top of the stack reaches an await: control returns to its
\* caller.  When the caller is the coordinator (store), it stores the handle
\* (shutdownPromise = performShutdown(...)) and returns it, and the event
\* delivery that called it goes on with the listeners still to run.
Yield ==
  /\ Running
  /\ stack # <<>>
  /\ execs[Top].pc \in {"awaitTask", "awaitClose"}
  /\ LET f == Head(stack)
         W0 == [World EXCEPT !.stack = Tail(stack)]
         W1 == IF f.store
               THEN [W0 EXCEPT !.sp = f.exec,
                               !.results = @ \cup
                                  {Result(f.exec, W0, f.reentrant)}]
               ELSE W0
     IN SetWorld(Deliver(W1, f.rest, f.call, f.reentrant))
  /\ UNCHANGED <<regVars, exit, triggers>>

\* ------------------------------------------------------------ event loop

NoCall == [ev |-> "none", reason |-> "none", exitCode |-> 0, fmt |-> "none"]

\* The frame of an executor resumed by the event loop.
Resumed(e) ==
  <<[exec |-> e, store |-> FALSE, rest |-> <<>>, call |-> NoCall,
     reentrant |-> FALSE]>>

\* The task that executor e awaits settles: it resolves and the loop goes on,
\* or it rejects with v and the per-task catch runs.
TaskSettle(e, rejected, v) ==
  /\ Running
  /\ stack = <<>>
  /\ e \in 1..Len(execs)
  /\ LET x == execs[e]
         y == [x EXCEPT !.pending = @ \ {x.idx}]
     IN /\ x.pc = "awaitTask"
        /\ Step(e, IF rejected
                   THEN TaskCatch([y EXCEPT !.taskFailed = TRUE], v)
                   ELSE Plain([y EXCEPT !.pc = "task", !.idx = @ + 1], <<>>))
  /\ stack' = IF exit'.by = "none" THEN Resumed(e) ELSE stack
  /\ UNCHANGED <<regVars, isShuttingDown, shutdownPromise, triggers, results,
                 callCount>>

\* The app.close() that executor e awaits settles: it resolves
\* ("Application closed successfully") or rejects with v and the outer catch
\* runs; the finally block follows either way.
CloseSettle(e, rejected, v) ==
  /\ Running
  /\ stack = <<>>
  /\ e \in 1..Len(execs)
  /\ LET x == execs[e]
         y == [x EXCEPT !.closePending = FALSE]
     IN /\ x.pc = "awaitClose"
        /\ Step(e, IF rejected
                   THEN OuterCatch([y EXCEPT !.closeFailed = TRUE], v)
                   ELSE Plain([y EXCEPT !.pc = "finally"], <<"closed">>))
  /\ UNCHANGED <<regVars, isShuttingDown, shutdownPromise, stack, triggers,
                 results, callCount>>

\* The timer of executor e fires: logger.fatal("Forced shutdown timeout...");
\* process.exit(1).
TimerFire(e) ==
  /\ Running
  /\ stack = <<>>
  /\ e \in 1..Len(execs)
  /\ execs[e].timer
  /\ log' = AddLog(log, execs[e].reg, "timeout")
  /\ execs' = [execs EXCEPT ![e].lineReasons = @ \cup {LineReason(execs[e])}]
  /\ exit' = [by |-> "timeout", code |-> TimeoutExitCode(execs[e]), exec |-> e]
  /\ UNCHANGED <<regVars, isShuttingDown, shutdownPromise, stack,
                 triggers, results, callCount, formatted>>

\* --------------------------------------------------------- specification

Next ==
  \/ \E n \in 0..MaxTasks : Register(n)
  \/ \E r \in 1..MaxRegs : Unregister(r)
  \/ \E ev \in Events : \E v \in EventValues(ev) : Emit(ev, v)
  \/ \E r \in 1..MaxRegs : \E c \in ManualExitCodes : Manual(r, c)
  \/ \E ev \in ReentrantEvents : ReentrantEmit(ev)
  \/ \E v \in Values : InvokeTask(TRUE, v)
  \/ InvokeTask(FALSE, NoValue)
  \/ \E v \in Values : InvokeClose(TRUE, v)
  \/ InvokeClose(FALSE, NoValue)
  \/ Yield
  \/ \E e \in 1..MaxRegs : \E v \in Values : TaskSettle(e, TRUE, v)
  \/ \E e \in 1..MaxRegs : TaskSettle(e, FALSE, NoValue)
  \/ \E e \in 1..MaxRegs : \E v \in Values : CloseSettle(e, TRUE, v)
  \/ \E e \in 1..MaxRegs : CloseSettle(e, FALSE, NoValue)
  \/ \E e \in 1..MaxRegs : TimerFire(e)

Spec == Init /\ [][Next]_vars

\* Node runs a synchronous run to its end, and fires an armed timer whose
\* delay has elapsed while the process lives.  Nothing makes a cleanup task
\* or app.close() settle, and nothing makes a trigger arrive.
SyncStep ==
  \/ \E v \in Values : InvokeTask(TRUE, v)
  \/ InvokeTask(FALSE, NoValue)
  \/ \E v \in Values : InvokeClose(TRUE, v)
  \/ InvokeClose(FALSE, NoValue)
  \/ Yield

SpecFair ==
  /\ Spec
  /\ WF_vars(SyncStep)
  /\ WF_vars(\E e \in 1..MaxRegs : TimerFire(e))

\* ----------------------------------------------------------------- claims

Execs == 1..Len(execs)

\* The executors started for registration r.
ExecsOf(r) == {e \in Execs : execs[e].reg = r}

RECURSIVE SumSeq(_)
SumSeq(q) == IF q = <<>> THEN 0 ELSE Head(q) + SumSeq(Tail(q))

\* How many times task i of registration r was invoked.
Invocations(r, i) ==
  LET calls == UNION {{<<e, k>> : k \in 1..Len(execs[e].calls)} : e \in ExecsOf(r)}
  IN Cardinality({c \in calls : execs[c[1]].calls[c[2]] = i})

\* How many times the app.close() of registration r was invoked.
Closes(r) ==
  SumSeq([e \in Execs |-> IF execs[e].reg = r THEN execs[e].closes ELSE 0])

\* How many "Starting graceful shutdown" lines were logged.
StartingLines == SumSeq([r \in 1..NumRegs |-> log[r]["starting"]])

\* C1: for any triggers in any order and interleaving, performShutdown is
\* started at most once in the process lifetime: "Starting graceful shutdown"
\* is logged at most once, every registered cleanup task is invoked at most
\* once and app.close() is invoked at most once.
C1_AtMostOnce ==
  /\ Len(execs) <= 1
  /\ StartingLines <= 1
  /\ \A r \in 1..NumRegs :
       /\ Closes(r) <= 1
       /\ \A i \in 1..cleanupTasks[r] : Invocations(r, i) <= 1

\* C2: every coordinator call made after a shutdown sequence has started
\* returns the handle of that sequence (the first executor): none returns no
\* handle, none a different one.
C2_SameHandle ==
  \A c \in results : c.started >= 1 => c.handle = 1

\* The executor whose finally block ended the process, if one did.
EndedNormally(e) == exit.by = "final" /\ exit.exec = e

\* C3: when a cleanup task of a shutdown sequence has thrown or rejected and
\* the sequence reaches its end, every task of the list was invoked,
\* app.close() was invoked and the exit code is 1.
C3_TaskIsolation ==
  \A e \in Execs :
    (execs[e].taskFailed /\ EndedNormally(e)) =>
      /\ Len(execs[e].calls) = cleanupTasks[execs[e].reg]
      /\ execs[e].closes = 1
      /\ exit.code = 1

\* C4: once performShutdown has started, the process eventually terminates,
\* whatever the cleanup tasks and app.close() do (succeed, fail, never settle).
C4_Terminates == (execs # <<>>) ~> ~Running

\* A cleanup task never settled and the timeout ended the process.
C4_Witness ==
  /\ exit.by = "timeout"
  /\ execs[exit.exec].pending # {}

\* C5: when the timer ends the process, the exit code is 1 whatever the
\* baseline was; the hung operation is still pending (it was not waited for),
\* no task after it was started, app.close() was not invoked while a task
\* hung, and nothing runs after the exit.
C5_AtTimeout ==
  exit.by = "timeout" =>
    LET x == execs[exit.exec] IN
    /\ exit.code = 1
    /\ x.pending # {} \/ x.closePending
    /\ x.pending # {} => (Len(x.calls) = x.idx /\ x.closes = 0)

C5_TimeoutForcesExit ==
  /\ []C5_AtTimeout
  /\ [][exit.by = "timeout" => UNCHANGED vars]_vars

\* The timer fired while the first of two tasks hung, on a baseline of 0.
C5_Witness ==
  /\ exit.by = "timeout"
  /\ exit.code = 1
  /\ LET x == execs[exit.exec] IN
     /\ x.exitCode = 0
     /\ x.finalExitCode = 0
     /\ x.pending = {1}
     /\ cleanupTasks[x.reg] = 2
     /\ x.calls = <<1>>

\* C6: within a shutdown sequence the cleanup tasks are invoked in
\* registration order, one at a time: the tasks invoked are 1..k in that
\* order, only the last one invoked can be unsettled, and app.close() is not
\* invoked while a task is unsettled.
C6_Sequential ==
  \A e \in Execs :
    LET x == execs[e] IN
    /\ \A k \in 1..Len(x.calls) : x.calls[k] = k
    /\ Cardinality(x.pending) <= 1
    /\ x.pending \subseteq {Len(x.calls)}
    /\ x.pending # {} => x.closes = 0

\* The second task is in flight after the first one has settled.
C6_Witness ==
  \E e \in Execs : execs[e].calls = <<1, 2>> /\ execs[e].pending = {2}

\* C7: a shutdown started with exitCode 0 whose cleanup tasks all succeed and
\* whose app.close() succeeds ends the process with exit code 0, unless the
\* timer ended it first.
C7_BaselinePreserved ==
  \A e \in Execs :
    (/\ EndedNormally(e)
     /\ execs[e].exitCode = 0
     /\ ~execs[e].taskFailed
     /\ ~execs[e].closeFailed) => exit.code = 0

\* Two tasks and app.close() succeeded on a baseline of 0.
C7_Witness ==
  \E e \in Execs :
    /\ EndedNormally(e)
    /\ execs[e].exitCode = 0
    /\ execs[e].calls = <<1, 2>>
    /\ execs[e].closes = 1
    /\ ~execs[e].taskFailed
    /\ ~execs[e].closeFailed
    /\ exit.code = 0

\* C8: escalation never reverts.  Once a cleanup task of a sequence has
\* failed its finalExitCode is 1, a baseline of 1 is never lowered, the
\* finally block exits with finalExitCode, and no step changes a finalExitCode
\* from 1 to 0.
C8_Escalated ==
  \A e \in Execs :
    /\ execs[e].taskFailed => execs[e].finalExitCode = 1
    /\ execs[e].exitCode = 1 => execs[e].finalExitCode = 1
    /\ EndedNormally(e) => exit.code = execs[e].finalExitCode

C9_UnregisterRemovesHandlers ==
  [][\A r \in unregistered :
       /\ log'[r]["uncaught"] = log[r]["uncaught"]
       /\ log'[r]["unhandled"] = log[r]["unhandled"]
       /\ \A e \in 1..Len(execs') :
            (e > Len(execs) /\ execs'[e].reg = r) => execs'[e].reason = "manual"]_vars

\* C10: isShuttingDown starts false and, once true, stays true in every later
\* state, whatever triggers, task outcomes or unregister calls occur.
C10_Monotonic ==
  [][/\ Len(isShuttingDown') >= Len(isShuttingDown)
     /\ \A r \in 1..Len(isShuttingDown') :
          IF r <= Len(isShuttingDown)
          THEN isShuttingDown[r] => isShuttingDown'[r]
          ELSE ~isShuttingDown'[r]]_vars

\* A further trigger and an unregister call arrived while the flag was true.
C10_Witness ==
  /\ \E r \in 1..NumRegs : isShuttingDown[r] /\ r \in unregistered
  /\ triggers >= 2

\* C11: the exit code of a handler-triggered shutdown is 0 exactly when a
\* SIGINT/SIGTERM trigger started it, no cleanup task failed, app.close() did
\* not fail and the finally block (not the timeout) ended the process; it is
\* 1 in every other case.
C11_ExitCode ==
  (exit.by \in {"final", "timeout"} /\ execs[exit.exec].reason # "manual") =>
    LET x == execs[exit.exec]
        clean == /\ x.reason \in {"signal:SIGINT", "signal:SIGTERM"}
                 /\ ~x.taskFailed
                 /\ ~x.closeFailed
                 /\ exit.by = "final"
    IN exit.code = IF clean THEN 0 ELSE 1

\* C12: when app.close() has failed, the failure was logged at fatal severity
\* ("Error during shutdown"), finalExitCode is 1, "Application closed
\* successfully" was not logged, the timer is cleared and the finally block
\* has ended the process with code 1.
C12_CloseFailureRecovered ==
  \A e \in Execs :
    execs[e].closeFailed =>
      /\ log[execs[e].reg]["shutdownError"] >= 1
      /\ log[execs[e].reg]["closed"] = 0
      /\ execs[e].finalExitCode = 1
      /\ ~execs[e].timer
      /\ EndedNormally(e)
      /\ exit.code = 1

\* C13: the promise of a shutdown sequence never rejects, whatever the
\* cleanup tasks and app.close() do.
C13_NeverRejects ==
  \A e \in Execs : execs[e].promise # "rejected"

\* A task and app.close() both failed, and an exception was even leaving the
\* outer catch block: the process ended with the promise still pending.
C13_Witness ==
  \E e \in Execs :
    /\ EndedNormally(e)
    /\ execs[e].taskFailed
    /\ execs[e].closeFailed
    /\ execs[e].escaped
    /\ execs[e].promise = "pending"

\* C14: every formatUnknown call made so far returned a string: none threw
\* and none returned something else.
C14_FormatReturnsString ==
  formatted \in {"none", "string"}

\* C15: every handler call carries the fixed (reason, exitCode) of its event,
\* a sequence started by a handler runs with that pair, and each coordinator
\* call of an error handler has its fatal line logged before the call (so
\* also before the executor that the call starts runs), whether or not a
\* shutdown is already in progress.
C15_HandlerMapping ==
  LET table == {<<"SIGINT", "signal:SIGINT", 0>>,
                <<"SIGTERM", "signal:SIGTERM", 0>>,
                <<"uncaughtException", "uncaughtException", 1>>,
                <<"unhandledRejection", "unhandledRejection", 1>>}
  IN /\ \A i \in 1..Len(stack) :
          LET f == stack[i] IN
          /\ f.call.ev \in Events =>
               <<f.call.ev, f.call.reason, f.call.exitCode>> \in table
          /\ f.store => /\ execs[f.exec].reason = f.call.reason
                        /\ execs[f.exec].exitCode = f.call.exitCode
     /\ \A e \in Execs :
          execs[e].reason # "manual" =>
            \E t \in table : execs[e].reason = t[2] /\ execs[e].exitCode = t[3]
     /\ \A r \in 1..NumRegs :
          /\ log[r]["uncaught"] = callCount[r]["uncaughtException"]
          /\ log[r]["unhandled"] = callCount[r]["unhandledRejection"]
          /\ SumSeq([k \in 1..5 |->
                      callCount[r][<<"signal:SIGINT", "signal:SIGTERM",
                                     "uncaughtException", "unhandledRejection",
                                     "manual">>[k]]])
               = log[r]["inProgress"] + log[r]["completedOrInProgress"]
                 + log[r]["starting"]

\* An uncaughtException arrived while a signal-triggered shutdown was in
\* progress: it was logged and the coordinator answered "already in progress".
C15_Witness ==
  \E r \in 1..NumRegs :
    /\ \E e \in ExecsOf(r) : execs[e].reason = "signal:SIGINT"
    /\ log[r]["uncaught"] = 1
    /\ callCount[r]["uncaughtException"] = 1
    /\ log[r]["inProgress"] = 1

\* C16: however many times registerGracefulShutdown was called, each process
\* event has at most one listener, so one SIGINT invokes one SIGINT handler.
C16_NoDuplicateHandlers ==
  \A ev \in Events : Len(listeners[ev]) <= 1

C17_Continues ==
  \A e \in Execs :
    (/\ EndedNormally(e)
     /\ execs[e].taskFailed
     /\ log[execs[e].reg]["shutdownError"] = 0) =>
       /\ Len(execs[e].calls) = cleanupTasks[execs[e].reg]
       /\ execs[e].closes = 1

C18_NoCallBeforeStore ==
  [][Len(execs) >= 1 =>
       /\ Len(execs') = Len(execs)
       /\ \A r \in 1..NumRegs :
            log'[r]["completedOrInProgress"] = log[r]["completedOrInProgress"]]_vars

\* C19: the timer armed when the executor starts stays armed through every
\* cleanup task and app.close() until the finally block clears it, is never
\* armed again, and its exit has code 1.
C19_Armed ==
  /\ \A e \in Execs : execs[e].pc # "exited" => execs[e].timer
  /\ \A r \in 1..NumRegs : log[r]["timeout"] <= 1
  /\ exit.by = "timeout" => exit.code = 1

C19_SingleTimeout ==
  /\ []C19_Armed
  /\ [][\A e \in 1..Len(execs) : ~execs[e].timer => ~execs'[e].timer]_vars

\* Both tasks succeeded, app.close() never settled and the timer ended the
\* process with code 1 on a baseline of 0.
C19_Witness ==
  /\ exit.by = "timeout"
  /\ exit.code = 1
  /\ LET x == execs[exit.exec] IN
     /\ x.exitCode = 0
     /\ x.calls = <<1, 2>>
     /\ ~x.taskFailed
     /\ x.closePending

\* C20: the process ends once, with one exit code.  An exit from the finally
\* block has the timer cleared, nothing pending, no timeout line logged and
\* the code finalExitCode; an exit from the timer happens with a cleanup task
\* or app.close() pending and no "Process exiting" line logged; and no step
\* follows an exit.
C20_OneExit ==
  /\ \A e \in Execs : execs[e].pc = "exited" => EndedNormally(e)
  /\ exit.by = "final" =>
       LET x == execs[exit.exec] IN
       /\ ~x.timer
       /\ x.pending = {} /\ ~x.closePending
       /\ exit.code = x.finalExitCode
       /\ \A r \in 1..NumRegs : log[r]["timeout"] = 0
       /\ SumSeq([r \in 1..NumRegs |-> log[r]["exiting"]]) = 1
  /\ exit.by = "timeout" =>
       LET x == execs[exit.exec] IN
       /\ x.pending # {} \/ x.closePending
       /\ \A r \in 1..NumRegs : log[r]["exiting"] = 0
       /\ SumSeq([r \in 1..NumRegs |-> log[r]["timeout"]]) = 1

C20_TerminatesOnce ==
  /\ []C20_OneExit
  /\ [][exit.by # "none" => exit' = exit]_vars

\* app.close() failed on a baseline of 0: the finally block cleared the timer
\* and ended the process with the escalated code.
C20_Witness ==
  /\ exit.by = "final"
  /\ exit.code = 1
  /\ LET x == execs[exit.exec] IN
     /\ x.exitCode = 0
     /\ x.closeFailed
     /\ ~x.timer
     /\ x.calls = <<1, 2>>

\* C21: app.close() is invoked only after every cleanup task was invoked and
\* has settled; a sequence that the finally block ended has invoked
\* app.close() exactly once, also after task failures, and ended only after
\* app.close() had settled.
C21_CloseAfterTasks ==
  \A e \in Execs :
    LET x == execs[e] IN
    /\ x.closes <= 1
    /\ x.closes = 1 => /\ Len(x.calls) = cleanupTasks[x.reg]
                       /\ x.pending = {}
    /\ EndedNormally(e) => /\ x.closes = 1
                           /\ ~x.closePending

\* C22: the in-flight handle, once populated, is never cleared or replaced,
\* and a flag, once true, is never written again; only a coordinator call
\* that starts a sequence writes either.
C22_WrittenOnce ==
  [][/\ shutdownPromise # 0 => shutdownPromise' = shutdownPromise
     /\ \A r \in 1..NumRegs : isShuttingDown[r] => isShuttingDown'[r]
     /\ (shutdownPromise' # shutdownPromise \/
         \E r \in 1..NumRegs : isShuttingDown'[r] # isShuttingDown[r])
          => \E e \in 1..Len(execs') : execs'[e].pc # "exited"]_vars

\* C23: a coordinator call of a registration that takes the secondary branch
\* ("Shutdown already completed or in progress") found the handle empty and
\* the flag true, leaves both as they are, starts no executor for the
\* registration, leaves its running executor (and its timer) untouched and
\* returns no handle; so a registration never has two executors.
C23_OneExecutorPerRegistration ==
  \A r \in 1..NumRegs : Cardinality(ExecsOf(r)) <= 1

C23_SecondaryCheck ==
  /\ []C23_OneExecutorPerRegistration
  /\ [][\A r \in 1..NumRegs :
          log'[r]["completedOrInProgress"] > log[r]["completedOrInProgress"] =>
            /\ shutdownPromise = 0 /\ shutdownPromise' = 0
            /\ isShuttingDown[r] /\ isShuttingDown'[r]
            /\ \A e \in 1..Len(execs') :
                 execs'[e].reg = r => (e <= Len(execs) /\ execs'[e] = execs[e])
            /\ \E c \in results' : c.handle = 0 /\ c.started >= 1]_vars

\* A call took the secondary branch while the registration's only executor
\* was running.
C23_Witness ==
  \E r \in 1..NumRegs :
    /\ log[r]["completedOrInProgress"] = 1
    /\ Cardinality(ExecsOf(r)) = 1
    /\ \E c \in results : c.handle = 0

\* C24: the reason of a sequence never changes; every cleanup task is given
\* that reason and the start, timeout and exit lines carry it, whatever
\* triggers arrive while the sequence is in flight.
C24_ReasonOfSequence ==
  \A e \in Execs :
    /\ execs[e].taskReasons \subseteq {execs[e].reason}
    /\ execs[e].lineReasons = {execs[e].reason}
    /\ execs[e].calls # <<>> => execs[e].taskReasons = {execs[e].reason}

C24_SameReason ==
  /\ []C24_ReasonOfSequence
  /\ [][\A e \in 1..Len(execs) : execs'[e].reason = execs[e].reason]_vars

\* An uncaughtException arrived during a SIGINT-started sequence whose two
\* tasks were given 'signal:SIGINT' and whose exit line carries it.
C24_Witness ==
  \E e \in Execs :
    /\ EndedNormally(e)
    /\ execs[e].reason = "signal:SIGINT"
    /\ callCount[execs[e].reg]["uncaughtException"] = 1
    /\ execs[e].calls = <<1, 2>>
    /\ execs[e].taskReasons = {"signal:SIGINT"}
    /\ execs[e].lineReasons = {"signal:SIGINT"}

\* C25: while the handler call that started a sequence has not returned, no
\* cleanup task and no app.close() of the sequence has settled (a task that
\* was invoked either threw synchronously or is pending); tasks and
\* app.close() settle only from the event loop, after the handler returned.
C25_NothingSettledInHandler ==
  \A i \in 1..Len(stack) :
    stack[i].store =>
      LET x == execs[stack[i].exec] IN
      /\ log[x.reg]["closed"] = 0
      /\ ~x.taskFailed => /\ Len(x.calls) = Cardinality(x.pending)
                          /\ x.closes = 1 => (x.closePending \/ x.closeFailed)

C25_FireAndForget ==
  /\ []C25_NothingSettledInHandler
  /\ [][\A e \in 1..Len(execs) :
          (\/ execs'[e].pending # execs[e].pending /\
              execs'[e].pending \subseteq execs[e].pending
           \/ execs[e].closePending /\ ~execs'[e].closePending)
            => stack = <<>>]_vars

\* The handler has returned with the handle while the first task is pending.
C25_Witness ==
  /\ Running
  /\ stack = <<>>
  /\ \E e \in Execs :
       /\ execs[e].pending = {1}
       /\ shutdownPromise = e
       /\ \E c \in results : c.handle = e /\ ~c.reentrant

\* C26: the baseline exit code of a sequence never changes; an
\* uncaughtException or unhandledRejection that arrives while a
\* signal-started sequence is in flight does not raise it: when all tasks
\* and app.close() then succeed, the process exits with code 0.
C26_LateErrorDiscarded ==
  \A e \in Execs :
    (/\ EndedNormally(e)
     /\ execs[e].reason \in {"signal:SIGINT", "signal:SIGTERM"}
     /\ \E r \in 1..NumRegs : callCount[r]["uncaughtException"]
                                + callCount[r]["unhandledRejection"] >= 1
     /\ ~execs[e].taskFailed
     /\ ~execs[e].closeFailed) =>
       /\ execs[e].exitCode = 0
       /\ execs[e].finalExitCode = 0
       /\ exit.code = 0

C26_BaselineFixed ==
  /\ []C26_LateErrorDiscarded
  /\ [][\A e \in 1..Len(execs) : execs'[e].exitCode = execs[e].exitCode]_vars

\* An unhandledRejection arrived during a SIGTERM-started sequence that then
\* succeeded: exit code 0.
C26_Witness ==
  \E e \in Execs :
    /\ EndedNormally(e)
    /\ execs[e].reason = "signal:SIGTERM"
    /\ callCount[execs[e].reg]["unhandledRejection"] = 1
    /\ ~execs[e].taskFailed
    /\ ~execs[e].closeFailed
    /\ execs[e].calls = <<1, 2>>
    /\ exit.code = 0

\* C27: while the call that started a sequence is inside performShutdown's
\* synchronous part, the registration's flag is true and the sequence is not
\* the stored handle; a trigger fired from inside that part while the handle
\* is empty makes the handler of every registration whose flag is true take
\* the secondary branch: no second executor for that registration, the
\* handle stays empty, and the call returns no handle.
C27_Window ==
  \A i \in 1..Len(stack) :
    stack[i].store =>
      /\ isShuttingDown[execs[stack[i].exec].reg]
      /\ shutdownPromise # stack[i].exec
      /\ Len(execs) = 1 => shutdownPromise = 0

C27_ReentrantTrigger ==
  /\ []C27_Window
  /\ [][(stack # <<>> /\ triggers' > triggers /\ shutdownPromise = 0) =>
          /\ shutdownPromise' = 0
          /\ \A c \in results' \ results : c.reentrant /\ c.handle = 0
          /\ \A r \in 1..NumRegs :
               isShuttingDown[r] =>
                 /\ \A e \in 1..Len(execs') : execs'[e].reg = r => e <= Len(execs)
                 /\ log'[r]["inProgress"] = log[r]["inProgress"]
                 /\ callCount'[r] # callCount[r] =>
                      log'[r]["completedOrInProgress"] =
                        log[r]["completedOrInProgress"] + 1]_vars

\* With one registration, a re-entrant trigger was answered with no handle
\* and the sequence went on alone.
C27_Witness ==
  /\ NumRegs = 1
  /\ Len(execs) = 1
  /\ log[1]["completedOrInProgress"] = 1
  /\ \E c \in results : c.reentrant /\ c.handle = 0
  /\ shutdownPromise = 1

\* C28: with two registrations, only the registration whose handler ran
\* first ever runs a sequence: every executor belongs to it and no other
\* registration's isShuttingDown becomes true.
C28_OnlyFirstRegistration ==
  /\ \A e \in Execs : execs[e].reg = execs[1].reg
  /\ Cardinality({r \in 1..NumRegs : isShuttingDown[r]}) <= 1

C30_BaselineOrOne ==
  (exit.by \in {"final", "timeout"} /\ execs[exit.exec].exitCode = 2) =>
    LET x == execs[exit.exec]
        failed == x.taskFailed \/ x.closeFailed \/ exit.by = "timeout"
    IN exit.code = IF failed THEN 1 ELSE 2

====
